---- MODULE Spec2Model ----
(***************************************************************************)
(* The per-block state store (IntroFlowContext) and the working slice      *)
(* (IcxSliceFroBlock) of src/src/analysis/flow_analysis.rs.                *)
(*                                                                         *)
(* Block ids and local indices are 0-based as in the source; TLA+          *)
(* sequences are 1-based, so slot u of a vector v is v[u + 1].             *)
(***************************************************************************)
EXTENDS Integers, Sequences, FiniteSets, TLC

\* ------------------------------------------------------------------ bounds

\* the largest basic-block count b_len of an analysed body
MaxBlocks == 2
\* the largest local count v_len of an analysed body
MaxLocals == 2
\* how many writes the transfer simulator makes to working slices in one run
MaxMut == 2
\* the largest block count of a body whose blocks are walked in order
MaxWalkBlocks == 4

\* provenance labels a taint set is made of
Labels == {"L1", "L2"}

\* ------------------------------------------------------------ fact kinds

\* the five fields of IntroFlowContext / IcxSliceFroBlock, in field order
KindOrder == <<"taint", "var", "len", "ty", "layout">>

Kinds == {KindOrder[n] : n \in 1..Len(KindOrder)}

\* T::default() of each fact kind
Default ==
    [taint |-> {}, var |-> "default", len |-> 0, ty |-> "default", layout |-> <<>>]

\* the facts of a local the transfer simulator has bound to a structural value
Bound ==
    [var |-> "init", len |-> 1, ty |-> "adt", layout |-> <<"unique">>]

\* Taint::is_untainted
is_untainted(t) == t = {}

\* Taint::insert
insert(t, elem) == t \cup {elem}

\* vec![x ; n]
Repeat(x, n) == [k \in 1..n |-> x]

\* InOutPair::new(len)
InOutPairNew(kind, len) ==
    [i |-> Repeat(Default[kind], len), o |-> Repeat(Default[kind], len)]

\* IOPairForGraph::new(b_len, v_len)
IOPairForGraphNew(kind, bl, vl) == Repeat(InOutPairNew(kind, vl), bl)

\* IntroFlowContext::new with the arguments of the layout store exchanged:
\* layout: IOPairForGraph::new(v_len, b_len)
IntroFlowContextNew_swapped(bl, vl) ==
    [k \in Kinds |->
        IF k = "layout" THEN IOPairForGraphNew(k, vl, bl) ELSE IOPairForGraphNew(k, bl, vl)]

\* IntroFlowContext::new(b_len, v_len)
IntroFlowContextNew(bl, vl) == [k \in Kinds |-> IOPairForGraphNew(k, bl, vl)]

\* IcxSliceFroBlock::new_for_block_0(len)
new_for_block_0(len) == [k \in Kinds |-> Repeat(Default[k], len)]

\* v[idx] of a Vec: in range exactly when idx < v.len()
InRange(v, idx) == idx >= 0 /\ idx < Len(v)

\* ---------------------------------------------------------------- state

VARIABLES
    b_len,      \* body.basic_blocks().len(), the first argument of IntroFlowContext::new
    v_len,      \* body.local_decls.len(), the second argument of IntroFlowContext::new
    icx,        \* IntroFlowAnalysis.icx: the per-block state store
    icx_slice,  \* IntroFlowAnalysis.icx_slice: the working slice (self of taint_merge)
    muts,       \* number of simulator writes made so far
    outcome,    \* "running", or "fatal" once an index panicked
    op,         \* the last operation and its arguments
    graph,      \* IntroFlowAnalysis.graph: the predecessor lists and the order
    status,     \* per block: how far the analysis of the function has taken it
    entry_state \* per block: the working slice it was entered with

vars == <<b_len, v_len, icx, icx_slice, muts, outcome, op, graph, status, entry_state>>

\* what only the walk over the blocks of a function changes
walk == <<graph, status, entry_state>>

\* an argument an operation does not take
NoArg == 0 - 1

\* the `another` of a merge is a copy of self
SelfArg == 0 - 2

Op(name, a, b) == [name |-> name, a |-> a, b |-> b]

\* ------------------------------------------------- IntroFlowContext

\* derive_from_pre_node with the layout taken from the entry vector of `from`:
\* get_i_mut() written where get_o_mut() is meant
DerivePreKind_entry(cx, k, from, to) ==
    IF ~InRange(cx[k], from) \/ ~InRange(cx[k], to)
    THEN [fatal |-> TRUE, icx |-> cx]
    ELSE [fatal |-> FALSE,
          icx |-> [cx EXCEPT ![k][to + 1].i =
                      IF k = "layout" THEN cx[k][from + 1].i ELSE cx[k][from + 1].o]]

\* one assignment of derive_from_pre_node:
\*   *self.k_mut().get_g_mut()[to].get_i_mut() = self.k_mut().get_g_mut()[from].get_o_mut().clone()
\* the right operand is evaluated first, then the place
DerivePreKind(cx, k, from, to) ==
    IF ~InRange(cx[k], from) \/ ~InRange(cx[k], to)
    THEN [fatal |-> TRUE, icx |-> cx]
    ELSE [fatal |-> FALSE, icx |-> [cx EXCEPT ![k][to + 1].i = cx[k][from + 1].o]]

RECURSIVE DerivePreFrom(_, _, _, _)
\* the assignments of derive_from_pre_node from the n-th on, stopping at a panic
DerivePreFrom(cx, from, to, n) ==
    IF n > Len(KindOrder) THEN [fatal |-> FALSE, icx |-> cx]
    ELSE LET r == DerivePreKind(cx, KindOrder[n], from, to)
         IN IF r.fatal THEN r ELSE DerivePreFrom(r.icx, from, to, n + 1)

\* IntroFlowContext::derive_from_pre_node(from, to)
derive_from_pre_node(cx, from, to) == DerivePreFrom(cx, from, to, 1)

\* derive_from_icx_slice with the layout written to the entry vector of `to`:
\* get_i_mut() written where get_o_mut() is meant
DeriveSliceKind_entry(cx, k, from, to) ==
    IF ~InRange(cx[k], to)
    THEN [fatal |-> TRUE, icx |-> cx]
    ELSE IF k = "layout"
    THEN [fatal |-> FALSE, icx |-> [cx EXCEPT ![k][to + 1].i = from[k]]]
    ELSE [fatal |-> FALSE, icx |-> [cx EXCEPT ![k][to + 1].o = from[k]]]

\* one assignment of derive_from_icx_slice:
\*   *self.k_mut().get_g_mut()[to].get_o_mut() = from.k
DeriveSliceKind(cx, k, from, to) ==
    IF ~InRange(cx[k], to)
    THEN [fatal |-> TRUE, icx |-> cx]
    ELSE [fatal |-> FALSE, icx |-> [cx EXCEPT ![k][to + 1].o = from[k]]]

RECURSIVE DeriveSliceFrom(_, _, _, _)
\* the assignments of derive_from_icx_slice from the n-th on, stopping at a panic
DeriveSliceFrom(cx, from, to, n) ==
    IF n > Len(KindOrder) THEN [fatal |-> FALSE, icx |-> cx]
    ELSE LET r == DeriveSliceKind(cx, KindOrder[n], from, to)
         IN IF r.fatal THEN r ELSE DeriveSliceFrom(r.icx, from, to, n + 1)

\* derive_from_icx_slice that indexes the store with 0 where `to` is meant
derive_from_icx_slice_first(cx, from, to) ==
    IF \E k \in Kinds : ~InRange(cx[k], to)
    THEN DeriveSliceFrom(cx, from, to, 1)
    ELSE DeriveSliceFrom(cx, from, 0, 1)

\* IntroFlowContext::derive_from_icx_slice(from, to)
derive_from_icx_slice(cx, from, to) == DeriveSliceFrom(cx, from, to, 1)

\* ------------------------------------------------- IcxSliceFroBlock

\* new_in that takes the entry vectors out of the store it borrows mutably
\* (std::mem::take where clone() is meant), leaving empty vectors behind
new_in_take(cx, idx) ==
    IF \E k \in Kinds : ~InRange(cx[k], idx)
    THEN [fatal |-> TRUE, slice |-> <<>>, icx |-> cx]
    ELSE [fatal |-> FALSE,
          slice |-> [k \in Kinds |-> cx[k][idx + 1].i],
          icx |-> [k \in Kinds |-> [cx[k] EXCEPT ![idx + 1].i = <<>>]]]

\* IcxSliceFroBlock::new_in(icx: &mut IntroFlowContext, idx): clones of the entry
\* vectors of block idx; the store it borrows mutably is returned as it leaves it
new_in(cx, idx) ==
    IF \E k \in Kinds : ~InRange(cx[k], idx)
    THEN [fatal |-> TRUE, slice |-> <<>>, icx |-> cx]
    ELSE [fatal |-> FALSE, slice |-> [k \in Kinds |-> cx[k][idx + 1].i], icx |-> cx]

\* IcxSliceFroBlock::new_out(icx: &mut IntroFlowContext, idx): clones of the exit
\* vectors of block idx; the store it borrows mutably is returned as it leaves it
new_out(cx, idx) ==
    IF \E k \in Kinds : ~InRange(cx[k], idx)
    THEN [fatal |-> TRUE, slice |-> <<>>, icx |-> cx]
    ELSE [fatal |-> FALSE, slice |-> [k \in Kinds |-> cx[k][idx + 1].o], icx |-> cx]

RECURSIVE InsertAll_toggle(_, _)
\* the loop of taint_merge removing the labels self already has
InsertAll_toggle(t, set) ==
    IF set = {} THEN t
    ELSE LET elem == CHOOSE e \in set : TRUE
         IN InsertAll_toggle(IF elem \in t THEN t \ {elem} ELSE insert(t, elem),
                             set \ {elem})

RECURSIVE InsertAll(_, _)
\* for elem in set.clone() { t.insert(elem) }
InsertAll(t, set) ==
    IF set = {} THEN t
    ELSE LET elem == CHOOSE e \in set : TRUE
         IN InsertAll(insert(t, elem), set \ {elem})

\* taint_merge that assigns the taint of another when self is tainted too
taint_merge_overwrite(self, other, u) ==
    IF ~InRange(other.taint, u) THEN [fatal |-> TRUE, slice |-> self, other |-> other]
    ELSE IF is_untainted(other.taint[u + 1])
    THEN [fatal |-> FALSE, slice |-> self, other |-> other]
    ELSE IF ~InRange(self.taint, u) THEN [fatal |-> TRUE, slice |-> self, other |-> other]
    ELSE [fatal |-> FALSE,
          slice |-> [self EXCEPT !.taint[u + 1] = other.taint[u + 1]],
          other |-> other]

\* taint_merge that returns when self is tainted already
taint_merge_keep(self, other, u) ==
    IF ~InRange(other.taint, u) THEN [fatal |-> TRUE, slice |-> self, other |-> other]
    ELSE IF is_untainted(other.taint[u + 1])
    THEN [fatal |-> FALSE, slice |-> self, other |-> other]
    ELSE IF ~InRange(self.taint, u) THEN [fatal |-> TRUE, slice |-> self, other |-> other]
    ELSE IF is_untainted(self.taint[u + 1])
    THEN [fatal |-> FALSE,
          slice |-> [self EXCEPT !.taint[u + 1] = other.taint[u + 1]],
          other |-> other]
    ELSE [fatal |-> FALSE, slice |-> self, other |-> other]

\* taint_merge that clones the whole taint vector of another into an untainted self
taint_merge_vector(self, other, u) ==
    IF ~InRange(other.taint, u) THEN [fatal |-> TRUE, slice |-> self, other |-> other]
    ELSE IF is_untainted(other.taint[u + 1])
    THEN [fatal |-> FALSE, slice |-> self, other |-> other]
    ELSE IF ~InRange(self.taint, u) THEN [fatal |-> TRUE, slice |-> self, other |-> other]
    ELSE IF is_untainted(self.taint[u + 1])
    THEN [fatal |-> FALSE, slice |-> [self EXCEPT !.taint = other.taint], other |-> other]
    ELSE [fatal |-> FALSE,
          slice |-> [self EXCEPT !.taint[u + 1] = InsertAll(@, other.taint[u + 1])],
          other |-> other]

\* taint_merge that reads the slots with get(u) and returns when there is none
taint_merge_get(self, other, u) ==
    IF ~InRange(other.taint, u) \/ ~InRange(self.taint, u)
    THEN [fatal |-> FALSE, slice |-> self, other |-> other]
    ELSE IF is_untainted(other.taint[u + 1])
    THEN [fatal |-> FALSE, slice |-> self, other |-> other]
    ELSE IF is_untainted(self.taint[u + 1])
    THEN [fatal |-> FALSE,
          slice |-> [self EXCEPT !.taint[u + 1] = other.taint[u + 1]],
          other |-> other]
    ELSE [fatal |-> FALSE,
          slice |-> [self EXCEPT !.taint[u + 1] = InsertAll(@, other.taint[u + 1])],
          other |-> other]

\* IcxSliceFroBlock::taint_merge(&mut self, another: &IcxSliceFroBlock, u):
\* self as the call leaves it, and the borrowed slice as the call leaves it
taint_merge(self, other, u) ==
    IF ~InRange(other.taint, u) THEN [fatal |-> TRUE, slice |-> self, other |-> other]
    ELSE IF is_untainted(other.taint[u + 1])
    THEN [fatal |-> FALSE, slice |-> self, other |-> other]
    ELSE IF ~InRange(self.taint, u) THEN [fatal |-> TRUE, slice |-> self, other |-> other]
    ELSE IF is_untainted(self.taint[u + 1])
    THEN [fatal |-> FALSE,
          slice |-> [self EXCEPT !.taint[u + 1] = other.taint[u + 1]],
          other |-> other]
    ELSE [fatal |-> FALSE,
          slice |-> [self EXCEPT !.taint[u + 1] = InsertAll(@, other.taint[u + 1])],
          other |-> other]

\* ---------------------------------------------------------------- Graph

\* Graph::new(len), the successor lists left out: pre and topo
GraphNew(len) == [pre |-> Repeat(<<>>, len), topo |-> <<>>]

\* ---------------------------------------------------------------- actions

\* IntroFlowAnalysis::new: the store and the slice of block 0
Init ==
    /\ b_len \in 1..MaxBlocks
    /\ v_len \in 1..MaxLocals
    /\ icx = IntroFlowContextNew(b_len, v_len)
    /\ icx_slice = new_for_block_0(v_len)
    /\ muts = 0
    /\ outcome = "running"
    /\ op = Op("new", NoArg, NoArg)
    /\ graph = GraphNew(0)
    /\ status = <<>>
    /\ entry_state = <<>>

\* block ids and local indices a caller may pass: the valid ones and one past them
BlockArgs == 0..b_len
LocalArgs == 0..v_len

DeriveFromPreNode(from, to) ==
    /\ outcome = "running"
    /\ LET r == derive_from_pre_node(icx, from, to)
       IN IF r.fatal
          THEN /\ outcome' = "fatal"
               /\ icx' = r.icx
               /\ op' = Op("derive_from_pre_node", from, to)
               /\ UNCHANGED <<b_len, v_len, icx_slice, muts>>
          ELSE /\ icx' = r.icx
               /\ op' = Op("derive_from_pre_node", from, to)
               /\ UNCHANGED <<b_len, v_len, icx_slice, muts, outcome>>

DeriveFromIcxSlice(to) ==
    /\ outcome = "running"
    /\ LET r == derive_from_icx_slice(icx, icx_slice, to)
       IN IF r.fatal
          THEN /\ outcome' = "fatal"
               /\ icx' = r.icx
               /\ op' = Op("derive_from_icx_slice", to, NoArg)
               /\ UNCHANGED <<b_len, v_len, icx_slice, muts>>
          ELSE /\ icx' = r.icx
               /\ op' = Op("derive_from_icx_slice", to, NoArg)
               /\ UNCHANGED <<b_len, v_len, icx_slice, muts, outcome>>

NewIn(idx) ==
    /\ outcome = "running"
    /\ LET r == new_in(icx, idx)
       IN IF r.fatal
          THEN /\ outcome' = "fatal"
               /\ icx' = r.icx
               /\ op' = Op("new_in", idx, NoArg)
               /\ UNCHANGED <<b_len, v_len, icx_slice, muts>>
          ELSE /\ icx_slice' = r.slice
               /\ icx' = r.icx
               /\ op' = Op("new_in", idx, NoArg)
               /\ UNCHANGED <<b_len, v_len, muts, outcome>>

NewOut(idx) ==
    /\ outcome = "running"
    /\ LET r == new_out(icx, idx)
       IN IF r.fatal
          THEN /\ outcome' = "fatal"
               /\ icx' = r.icx
               /\ op' = Op("new_out", idx, NoArg)
               /\ UNCHANGED <<b_len, v_len, icx_slice, muts>>
          ELSE /\ icx_slice' = r.slice
               /\ icx' = r.icx
               /\ op' = Op("new_out", idx, NoArg)
               /\ UNCHANGED <<b_len, v_len, muts, outcome>>

NewForBlock0 ==
    /\ outcome = "running"
    /\ icx_slice' = new_for_block_0(v_len)
    /\ op' = Op("new_for_block_0", NoArg, NoArg)
    /\ UNCHANGED <<b_len, v_len, icx, muts, outcome>>

\* the transfer simulator taints local u: self.taint_mut()[u].insert(label)
TaintLocal(u, label) ==
    /\ outcome = "running"
    /\ muts < MaxMut
    /\ u < v_len
    /\ label \notin icx_slice.taint[u + 1]
    /\ icx_slice' = [icx_slice EXCEPT !.taint[u + 1] = insert(@, label)]
    /\ muts' = muts + 1
    /\ op' = Op("taint_local", u, NoArg)
    /\ UNCHANGED <<b_len, v_len, icx, outcome>>

\* the transfer simulator binds local u to a value of a structural type:
\* self.var_mut()[u], len_mut()[u], ty_mut()[u] and layout_mut()[u] are assigned
BindLocal(u) ==
    /\ outcome = "running"
    /\ muts < MaxMut
    /\ u < v_len
    /\ icx_slice.var[u + 1] = Default.var
    /\ icx_slice' = [icx_slice EXCEPT !.var[u + 1] = Bound.var,
                                      !.len[u + 1] = Bound.len,
                                      !.ty[u + 1] = Bound.ty,
                                      !.layout[u + 1] = Bound.layout]
    /\ muts' = muts + 1
    /\ op' = Op("bind_local", u, NoArg)
    /\ UNCHANGED <<b_len, v_len, icx, outcome>>

\* self.taint_merge(&another, u) on the working slice, `another` being other
MergeStep(other, u, src) ==
    LET r == taint_merge(icx_slice, other, u)
    IN IF r.fatal
       THEN /\ outcome' = "fatal"
            /\ icx_slice' = r.slice
            /\ op' = Op("taint_merge", u, src)
            /\ UNCHANGED <<b_len, v_len, icx, muts>>
       ELSE /\ icx_slice' = r.slice
            /\ op' = Op("taint_merge", u, src)
            /\ UNCHANGED <<b_len, v_len, icx, muts, outcome>>

\* the merge of a predecessor's exit state: another = new_out(icx, p)
TaintMergeOut(p, u) ==
    /\ outcome = "running"
    /\ p < b_len
    /\ MergeStep(new_out(icx, p).slice, u, p)

\* the merge of a copy of the working slice into itself: another = self.clone()
TaintMergeClone(u) ==
    /\ outcome = "running"
    /\ MergeStep(icx_slice, u, SelfArg)

\* the operations of the store and of the slice, called in any order
Next ==
    \/ \E from \in BlockArgs, to \in BlockArgs :
          DeriveFromPreNode(from, to) /\ UNCHANGED walk
    \/ \E to \in BlockArgs : DeriveFromIcxSlice(to) /\ UNCHANGED walk
    \/ \E idx \in BlockArgs : NewIn(idx) /\ UNCHANGED walk
    \/ \E idx \in BlockArgs : NewOut(idx) /\ UNCHANGED walk
    \/ NewForBlock0 /\ UNCHANGED walk
    \/ \E u \in LocalArgs, label \in Labels : TaintLocal(u, label) /\ UNCHANGED walk
    \/ \E u \in LocalArgs : BindLocal(u) /\ UNCHANGED walk
    \/ \E p \in BlockArgs, u \in LocalArgs : TaintMergeOut(p, u) /\ UNCHANGED walk
    \/ \E u \in LocalArgs : TaintMergeClone(u) /\ UNCHANGED walk

Spec == Init /\ [][Next]_vars

\* ------------------------------------------- the walk over one function

RECURSIVE SetToSeq(_)
\* the block ids of S in ascending order
SetToSeq(S) ==
    IF S = {} THEN <<>>
    ELSE LET m == CHOOSE x \in S : \A y \in S : x <= y
         IN <<m>> \o SetToSeq(S \ {m})

\* the graphs of n blocks without back edges, in the order 0, 1, ..., n - 1:
\* block 0 is the entry, every other block has predecessors among the earlier ones
Graphs(n) ==
    LET Earlier(j) == IF j = 1 THEN {{}} ELSE (SUBSET (0..(j - 2))) \ {{}}
        PreSets == {Q \in [1..n -> SUBSET (0..(n - 1))] : \A j \in 1..n : Q[j] \in Earlier(j)}
    IN {[pre |-> [j \in 1..n |-> SetToSeq(Q[j])], topo |-> [j \in 1..n |-> j - 1]] :
           Q \in PreSets}

\* no working slice yet
NoSlice == <<>>

Rank(st) ==
    CASE st = "unvisited" -> 0
      [] st = "entry-resolved" -> 1
      [] st = "simulated" -> 2
      [] st = "finalized" -> 3

\* the blocks of the order not finalized yet, and the one the walk is at
Pending == {n \in 1..Len(graph.topo) : status[graph.topo[n] + 1] # "finalized"}

Cur == graph.topo[CHOOSE n \in Pending : \A m \in Pending : n <= m]

RECURSIVE MergeLocals(_, _, _)
\* self.taint_merge(&other, u) for every local u from n on
MergeLocals(self, other, n) ==
    IF n >= Len(self.taint) THEN self
    ELSE MergeLocals(taint_merge(self, other, n).slice, other, n + 1)

\* the facts other than taint are carried from the first predecessor whose exit
\* state for the local is not the default
CarryFacts(self, other) ==
    [k \in Kinds |->
        IF k = "taint" THEN self[k]
        ELSE [n \in 1..Len(self[k]) |->
                 IF self[k][n] = Default[k] THEN other[k][n] ELSE self[k][n]]]

RECURSIVE MergePreds(_, _, _)
\* the exit states of the predecessors ps folded into self, in the order of ps
MergePreds(cx, self, ps) ==
    IF ps = <<>> THEN self
    ELSE LET other == new_out(cx, Head(ps)).slice
         IN MergePreds(cx, CarryFacts(MergeLocals(self, other, 0), other), Tail(ps))

\* the entry state of block b: the slice of block 0, the exit state of the one
\* predecessor, or the merge of the exit states of all of them
EntryOf(cx, b) ==
    LET ps == graph.pre[b + 1]
    IN IF ps = <<>>
       THEN [icx |-> cx, slice |-> new_for_block_0(v_len)]
       ELSE LET d == derive_from_pre_node(cx, ps[1], b)
                s == new_in(d.icx, b)
            IN [icx |-> s.icx, slice |-> MergePreds(s.icx, s.slice, Tail(ps))]

\* IntroFlowAnalysis::new for a body with a graph
InitWalk ==
    /\ b_len \in 1..MaxWalkBlocks
    /\ v_len \in 1..MaxLocals
    /\ icx = IntroFlowContextNew(b_len, v_len)
    /\ icx_slice = new_for_block_0(v_len)
    /\ muts = 0
    /\ outcome = "running"
    /\ op = Op("new", NoArg, NoArg)
    /\ graph \in Graphs(b_len)
    /\ status = Repeat("unvisited", b_len)
    /\ entry_state = Repeat(NoSlice, b_len)

\* unvisited -> entry-resolved
ResolveEntry ==
    /\ outcome = "running"
    /\ Pending # {}
    /\ status[Cur + 1] = "unvisited"
    /\ LET e == EntryOf(icx, Cur)
       IN /\ icx' = e.icx
          /\ icx_slice' = e.slice
          /\ entry_state' = [entry_state EXCEPT ![Cur + 1] = e.slice]
    /\ status' = [status EXCEPT ![Cur + 1] = "entry-resolved"]
    /\ op' = Op("resolve_entry", Cur, NoArg)
    /\ UNCHANGED <<b_len, v_len, muts, outcome, graph>>

\* a statement of the block that taints a local, simulated on the working slice
SimulateTaint ==
    /\ Pending # {}
    /\ status[Cur + 1] = "entry-resolved"
    /\ \E u \in LocalArgs, label \in Labels : TaintLocal(u, label)
    /\ UNCHANGED walk

\* a statement of the block that binds a local, simulated on the working slice
SimulateBind ==
    /\ Pending # {}
    /\ status[Cur + 1] = "entry-resolved"
    /\ \E u \in LocalArgs : BindLocal(u)
    /\ UNCHANGED walk

\* entry-resolved -> simulated: the working slice is the exit state of the block
EndSimulation ==
    /\ outcome = "running"
    /\ Pending # {}
    /\ status[Cur + 1] = "entry-resolved"
    /\ status' = [status EXCEPT ![Cur + 1] = "simulated"]
    /\ op' = Op("end_simulation", Cur, NoArg)
    /\ UNCHANGED <<b_len, v_len, icx, icx_slice, muts, outcome, graph, entry_state>>

\* simulated -> finalized: the working slice is written to the store
Finalize ==
    /\ Pending # {}
    /\ status[Cur + 1] = "simulated"
    /\ DeriveFromIcxSlice(Cur)
    /\ status' = [status EXCEPT ![Cur + 1] = "finalized"]
    /\ UNCHANGED <<graph, entry_state>>

NextWalk ==
    \/ ResolveEntry
    \/ SimulateTaint
    \/ SimulateBind
    \/ EndSimulation
    \/ Finalize

SpecWalk == InitWalk /\ [][NextWalk]_vars

\* ------------------------------------------------------------ properties

\* the slice a taint_merge step recorded in op borrowed as `another`, in store cx
\* and with working slice self
AnotherOf(cx, self, src) == IF src = SelfArg THEN self ELSE new_out(cx, src).slice

\* the blocks of the store and the locals of a slice
Blocks == 0..(b_len - 1)
Locals == 0..(v_len - 1)

\* C1: after self.taint_merge(another, u) on slices of equal length, with u in
\* range, the taint set of self at u is exactly the union of the old taint set of
\* self at u and the taint set of another at u: untainted when both were, and the
\* labels of another alone when self was untainted.
C1_MergeIsUnion ==
    [][(op'.name = "taint_merge" /\ op'.a \in Locals) =>
        LET u == op'.a
            other == AnotherOf(icx, icx_slice, op'.b)
            old == icx_slice.taint[u + 1]
            new == icx_slice'.taint[u + 1]
        IN /\ outcome' = "running"
           /\ Len(other.taint) = Len(icx_slice.taint)
           /\ new = old \cup other.taint[u + 1]
           /\ (is_untainted(old) /\ is_untainted(other.taint[u + 1])) => is_untainted(new)
           /\ is_untainted(old) => new = other.taint[u + 1]]_vars

\* C1 witness: a merge of a predecessor's exit state has left both labels at u,
\* one of which the predecessor does not have
C1_Witness ==
    /\ op.name = "taint_merge"
    /\ op.b \in Blocks
    /\ op.a \in Locals
    /\ icx_slice.taint[op.a + 1] = Labels
    /\ Cardinality(icx.taint[op.b + 1].o[op.a + 1]) = 1

\* C3: after derive_from_pre_node(from, to) the entry vector of `to` equals the
\* exit vector of `from`, slot for slot, for each of the five fact kinds.
C3_Passthrough ==
    [][(op'.name = "derive_from_pre_node" /\ outcome' = "running") =>
        LET from == op'.a
            to == op'.b
        IN \A k \in Kinds :
              /\ icx'[k][to + 1].i = icx[k][from + 1].o
              /\ \A u \in Locals : icx'[k][to + 1].i[u + 1] = icx[k][from + 1].o[u + 1]]_vars

\* C3 witness: a block has taken over an exit state of another block in which a
\* local is tainted and a local is bound
C3_Witness ==
    /\ op.name = "derive_from_pre_node"
    /\ outcome = "running"
    /\ op.a # op.b
    /\ \E u \in Locals : icx.taint[op.b + 1].i[u + 1] # {}
    /\ \E u \in Locals : icx.layout[op.b + 1].i[u + 1] # Default.layout
    /\ \A k \in Kinds : icx[k][op.b + 1].i = icx[k][op.a + 1].o

\* C4: merging a copy of a slice into the slice leaves it unchanged, and a second
\* application of the same merge leaves the slice as the first application left it.
C4_MergeIdempotent ==
    [][/\ (op'.name = "taint_merge" /\ op'.b = SelfArg /\ op'.a \in Locals)
            => icx_slice' = icx_slice
       /\ (op.name = "taint_merge" /\ op' = op /\ op.a \in Locals)
            => icx_slice' = icx_slice]_vars

\* C4 witness: a slice with a tainted local has been merged with a copy of itself
C4_Witness ==
    /\ op.name = "taint_merge"
    /\ op.b = SelfArg
    /\ op.a \in Locals
    /\ outcome = "running"
    /\ icx_slice.taint[op.a + 1] # {}

\* the operations that make or change a working slice and are no write-back
SliceOps == {"new_in", "new_out", "new_for_block_0", "taint_local", "bind_local", "taint_merge"}

\* C5: taking a working slice from the store and changing it, taint_merge
\* included, leaves every entry vector and every exit vector of the store as it is.
C5_SliceDetached ==
    [][op'.name \in SliceOps => icx' = icx]_vars

\* C5 witness: a slice taken from a block of the store has been changed and now
\* differs from the vectors of that block, which still hold a tainted local
C5_Witness ==
    /\ op.name \in {"taint_local", "bind_local", "taint_merge"}
    /\ outcome = "running"
    /\ \E b \in Blocks :
          /\ \E u \in Locals : icx.taint[b + 1].o[u + 1] # {}
          /\ \E u \in Locals :
                /\ icx.taint[b + 1].o[u + 1] # icx_slice.taint[u + 1]
                /\ icx.taint[b + 1].o[u + 1] \subseteq icx_slice.taint[u + 1]

\* C6: derive_from_icx_slice(from, to) makes the exit vectors of `to` the vectors
\* of `from`, so that new_out(icx, to) is `from`, and leaves the entry vectors of
\* `to` and both vectors of every other block unchanged.
C6_WriteBack ==
    [][(op'.name = "derive_from_icx_slice" /\ outcome' = "running") =>
        LET to == op'.a
        IN /\ \A k \in Kinds : icx'[k][to + 1].o = icx_slice[k]
           /\ new_out(icx', to).slice = icx_slice
           /\ \A k \in Kinds : icx'[k][to + 1].i = icx[k][to + 1].i
           /\ \A k \in Kinds : \A b \in Blocks : b # to => icx'[k][b + 1] = icx[k][b + 1]]_vars

\* C6 witness: a slice with a tainted and a bound local has been written to a
\* block whose entry vectors differ from it, another block holding other facts
C6_Witness ==
    /\ op.name = "derive_from_icx_slice"
    /\ outcome = "running"
    /\ \E u \in Locals : icx_slice.taint[u + 1] # {}
    /\ \E u \in Locals : icx_slice.var[u + 1] # Default.var
    /\ new_out(icx, op.a).slice = icx_slice
    /\ new_in(icx, op.a).slice # icx_slice
    /\ \E b \in Blocks : b # op.a /\ new_out(icx, b).slice \notin {icx_slice, new_for_block_0(v_len)}

\* C7: every fact kind of the store has b_len blocks, and every block of every
\* kind has an entry vector and an exit vector of v_len slots.
C7_Lengths ==
    \A k \in Kinds :
        /\ Len(icx[k]) = b_len
        /\ \A b \in Blocks : Len(icx[k][b + 1].i) = v_len /\ Len(icx[k][b + 1].o) = v_len

\* C7 witness: a store of two blocks and one local after a write-back and a
\* derivation from a predecessor
C7_Witness ==
    /\ b_len # v_len
    /\ op.name = "derive_from_pre_node"
    /\ outcome = "running"
    /\ \E b \in Blocks : new_in(icx, b).slice # new_for_block_0(v_len)
    /\ \E b \in Blocks : new_out(icx, b).slice # new_for_block_0(v_len)

\* the call recorded in o has a block id or a local index out of range
OutOfRange(o) ==
    \/ o.name = "derive_from_pre_node" /\ (o.a >= b_len \/ o.b >= b_len)
    \/ o.name \in {"derive_from_icx_slice", "new_in", "new_out"} /\ o.a >= b_len
    \/ o.name = "taint_merge" /\ o.a >= v_len

\* C9: a call with a block id not less than the block count, or a taint_merge
\* with a local index not less than the slice length, ends in the fatal outcome
\* with no vector of the store and no slot of the slice modified.
C9_FatalOutOfRange ==
    [][OutOfRange(op') =>
        /\ outcome' = "fatal"
        /\ icx' = icx
        /\ icx_slice' = icx_slice]_vars

\* C9 witness: a derivation from a block that does not exist has ended fatally
\* in a store that holds facts
C9_Witness ==
    /\ outcome = "fatal"
    /\ op.name = "derive_from_pre_node"
    /\ op.a >= b_len
    /\ op.b < b_len
    /\ \E b \in Blocks : new_out(icx, b).slice # new_for_block_0(v_len)

RECURSIVE FoldTaint(_, _, _, _)
\* the exit states of the blocks ps folded into self at local u, in the order of ps
FoldTaint(cx, self, ps, u) ==
    IF ps = <<>> THEN self
    ELSE FoldTaint(cx, taint_merge(self, new_out(cx, Head(ps)).slice, u).slice, Tail(ps), u)

\* the arrangements of the list s in every order
Arrangements(s) ==
    {[n \in 1..Len(s) |-> s[f[n]]] :
        f \in {g \in [1..Len(s) -> 1..Len(s)] :
                  \A i \in 1..Len(s) : \A j \in 1..Len(s) : g[i] = g[j] => i = j}}

\* the predecessors of block b
PredsOf(b) == {graph.pre[b + 1][n] : n \in 1..Len(graph.pre[b + 1])}

\* C10: folding the exit states of the predecessors of a block into an untainted
\* slice gives the same taint set at u in every order of the predecessors, and a
\* taint_merge changes only the taint slot u of self: every other taint slot, the
\* other four vectors of self and the slice borrowed as `another` stay as they are.
C10_OrderIndependent ==
    /\ \A b \in Blocks : \A t \in Arrangements(graph.pre[b + 1]) : \A u \in Locals :
          FoldTaint(icx, new_for_block_0(v_len), graph.pre[b + 1], u).taint[u + 1]
              = FoldTaint(icx, new_for_block_0(v_len), t, u).taint[u + 1]
    /\ \A src \in Blocks \cup {SelfArg} : \A u \in Locals :
          LET other == AnotherOf(icx, icx_slice, src)
              r == taint_merge(icx_slice, other, u)
          IN /\ ~r.fatal
             /\ \A k \in Kinds \ {"taint"} : r.slice[k] = icx_slice[k]
             /\ Len(r.slice.taint) = Len(icx_slice.taint)
             /\ \A v \in Locals : v # u => r.slice.taint[v + 1] = icx_slice.taint[v + 1]
             /\ r.other = other

\* C10 witness: a block with three predecessors has been entered, two of which
\* taint the same local with different labels
C10_Witness ==
    \E b \in Blocks :
        /\ op.name = "resolve_entry"
        /\ op.a = b
        /\ Len(graph.pre[b + 1]) = 3
        /\ \E p \in PredsOf(b), q \in PredsOf(b), u \in Locals :
              /\ icx.taint[p + 1].o[u + 1] = {"L1"}
              /\ icx.taint[q + 1].o[u + 1] = {"L2"}
              /\ icx_slice.taint[u + 1] = Labels

C8_FinalizedImmutable ==
    [][\A b \in Blocks :
          /\ status[b + 1] = "finalized" =>
                /\ status'[b + 1] = "finalized"
                /\ \A k \in Kinds : icx'[k][b + 1].o = icx[k][b + 1].o
          /\ Rank(status'[b + 1]) \in {Rank(status[b + 1]), Rank(status[b + 1]) + 1}]_vars

\* C8 witness: a later block has been finalized after a block whose exit state
\* holds facts that the later block's exit state does not
C8_Witness ==
    /\ op.name = "derive_from_icx_slice"
    /\ op.a > 0
    /\ status[op.a + 1] = "finalized"
    /\ \E b \in Blocks :
          /\ b < op.a
          /\ status[b + 1] = "finalized"
          /\ new_out(icx, b).slice # new_for_block_0(v_len)
          /\ new_out(icx, b).slice # new_out(icx, op.a).slice

====
